---- MODULE Spec2Model ----
(***************************************************************************)
(* DocuParse Pro demo backend (src/main.py, src/schemas.py).               *)
(*                                                                         *)
(* Strings are modelled as sequences of atoms (an atom is a TLA+ string    *)
(* standing for one or more characters), so that f-string composition is   *)
(* sequence concatenation and "substring" is a contiguous sub-sequence.    *)
(* Optional[T] values are modelled as sequences of length 0 (None) or 1.   *)
(* Float literals of the demo payloads are written in hundredths           *)
(* (4.26 -> 426); integer literals (qty) are kept as they are.             *)
(***************************************************************************)
EXTENDS Integers, Sequences, FiniteSets, TLC

\* ------------------------------------------------------------------ bounds
\* number of concurrently served extraction requests
NProcs == 2
\* longest uploaded content enumerated byte by byte
MaxContentLen == 2
\* longest summarize text enumerated atom by atom
MaxTextLen == 4

\* ----------------------------------------------------------- basic helpers
None == <<>>
Some(x) == <<x>>

Min(a, b) == IF a < b THEN a ELSE b
Max(a, b) == IF a > b THEN a ELSE b

\* all sequences over S of length at most n
SeqsUpTo(S, n) == UNION {[1..k -> S] : k \in 0..n}

\* s occurs in t as a contiguous sub-sequence
IsSubstring(s, t) ==
    \E i \in 1..(Len(t) - Len(s) + 1) : SubSeq(t, i, i + Len(s) - 1) = s

Procs == 1..NProcs

\* -------------------------------------------------- static configuration
\* faulty variant: the registry without its last entry
ALLOWED_EXTRACT_TYPES_NoTable ==
    [jt \in {"bank_statement", "invoice", "receipt", "salary_slip", "credit_card"} |->
        CASE jt = "bank_statement" -> <<"Bank Statement Converter">>
          [] jt = "invoice"        -> <<"Invoice Scanner">>
          [] jt = "receipt"        -> <<"Receipt Scanner">>
          [] jt = "salary_slip"    -> <<"Salary Slip Converter">>
          [] jt = "credit_card"    -> <<"Credit Card Statement Converter">>]

ALLOWED_EXTRACT_TYPES ==
    [jt \in {"bank_statement", "invoice", "receipt", "salary_slip", "credit_card",
             "table_extract"} |->
        CASE jt = "bank_statement" -> <<"Bank Statement Converter">>
          [] jt = "invoice"        -> <<"Invoice Scanner">>
          [] jt = "receipt"        -> <<"Receipt Scanner">>
          [] jt = "salary_slip"    -> <<"Salary Slip Converter">>
          [] jt = "credit_card"    -> <<"Credit Card Statement Converter">>
          [] jt = "table_extract"  -> <<"Document Table Extractor">>]

\* the Literal[...] annotation of the job_type path parameter: the framework
\* validates the path parameter against it before the handler body runs
JobTypeLiteral ==
    {"bank_statement", "invoice", "receipt", "salary_slip", "credit_card", "table_extract"}

\* ExtractionJob.job_type Literal and ExtractionJob.status Literal
ExtractionJobTypes ==
    {"bank_statement", "invoice", "receipt", "salary_slip", "credit_card", "table_extract",
     "summarize", "translate", "chat"}
ExtractionJobStatuses == {"success", "error"}

\* ------------------------------------------------------------ demo payloads
\* faulty variant: the receipt branch falls into the invoice branch
DemoDataReceiptAsInvoice(job_type) ==
    IF job_type = "bank_statement" THEN
        [account_name |-> "Demo Account", account_number |-> "XXXX-1234", currency |-> "USD",
         transactions |-> <<
            [date |-> "2025-01-04", description |-> "Coffee Shop", debit |-> 450,
             credit |-> 0, balance |-> 102550],
            [date |-> "2025-01-06", description |-> "Salary", debit |-> 0,
             credit |-> 300000, balance |-> 402550] >>]
    ELSE IF job_type = "credit_card" THEN
        [cardholder |-> "Demo User", last4 |-> "4242", currency |-> "USD",
         transactions |-> <<
            [date |-> "2025-01-03", merchant |-> "Online Store", amount |-> -8999,
             category |-> "Shopping"],
            [date |-> "2025-01-07", merchant |-> "Airline", amount |-> -24000,
             category |-> "Travel"] >>]
    ELSE IF job_type \in {"invoice", "receipt"} THEN
        [merchant |-> "Acme Corp", invoice_number |-> "INV-1001",
         issue_date |-> "2025-01-02", due_date |-> "2025-01-16",
         items |-> <<
            [description |-> "Widget A", qty |-> 2, price |-> 4999, total |-> 9998],
            [description |-> "Service Fee", qty |-> 1, price |-> 1500, total |-> 1500] >>,
         subtotal |-> 11498, tax |-> 920, grand_total |-> 12418]
    ELSE IF job_type = "salary_slip" THEN
        [employee |-> "Demo Employee", month |-> "2025-01",
         earnings |-> [basic |-> 250000, hra |-> 80000, bonus |-> 20000],
         deductions |-> [tax |-> 45000, insurance |-> 5000],
         net_pay |-> 300000]
    ELSE
        [tables |-> <<
            [name |-> "Table 1",
             columns |-> <<"Date", "Description", "Amount">>,
             rows |-> << <<"2025-01-01", "Opening Balance", "1000.00">>,
                         <<"2025-01-02", "Subscription", "-12.00">> >>] >>]

DemoData(job_type) ==
    IF job_type = "bank_statement" THEN
        [account_name |-> "Demo Account", account_number |-> "XXXX-1234", currency |-> "USD",
         transactions |-> <<
            [date |-> "2025-01-04", description |-> "Coffee Shop", debit |-> 450,
             credit |-> 0, balance |-> 102550],
            [date |-> "2025-01-06", description |-> "Salary", debit |-> 0,
             credit |-> 300000, balance |-> 402550] >>]
    ELSE IF job_type = "credit_card" THEN
        [cardholder |-> "Demo User", last4 |-> "4242", currency |-> "USD",
         transactions |-> <<
            [date |-> "2025-01-03", merchant |-> "Online Store", amount |-> -8999,
             category |-> "Shopping"],
            [date |-> "2025-01-07", merchant |-> "Airline", amount |-> -24000,
             category |-> "Travel"] >>]
    ELSE IF job_type = "invoice" THEN
        [merchant |-> "Acme Corp", invoice_number |-> "INV-1001",
         issue_date |-> "2025-01-02", due_date |-> "2025-01-16",
         items |-> <<
            [description |-> "Widget A", qty |-> 2, price |-> 4999, total |-> 9998],
            [description |-> "Service Fee", qty |-> 1, price |-> 1500, total |-> 1500] >>,
         subtotal |-> 11498, tax |-> 920, grand_total |-> 12418]
    ELSE IF job_type = "receipt" THEN
        [merchant |-> "Corner Market", date |-> "2025-01-05",
         items |-> <<
            [name |-> "Bananas", qty |-> 3, unit_price |-> 59, total |-> 177],
            [name |-> "Milk", qty |-> 1, unit_price |-> 249, total |-> 249] >>,
         total |-> 426]
    ELSE IF job_type = "salary_slip" THEN
        [employee |-> "Demo Employee", month |-> "2025-01",
         earnings |-> [basic |-> 250000, hra |-> 80000, bonus |-> 20000],
         deductions |-> [tax |-> 45000, insurance |-> 5000],
         net_pay |-> 300000]
    ELSE
        [tables |-> <<
            [name |-> "Table 1",
             columns |-> <<"Date", "Description", "Amount">>,
             rows |-> << <<"2025-01-01", "Opening Balance", "1000.00">>,
                         <<"2025-01-02", "Subscription", "-12.00">> >>] >>]

\* --------------------------------------------------------- request universe
Filenames ==
    { <<"a", ".", "t", "x", "t">>, <<>>, <<"x", " for ", "y", " (demo)">> }
Bytes == {0, 255}
TenBytes == [i \in 1..10 |-> 0]
Contents == SeqsUpTo(Bytes, MaxContentLen) \cup {TenBytes}
ContentTypes == {None, Some("text/plain")}
OptionsValues == {None, Some("{}")}
JobTypeInputs == JobTypeLiteral \cup {"unknown_type", "summarize"}

\* every request of the single-request specification
Requests ==
    [job_type : JobTypeInputs, filename : Filenames, content : Contents,
     content_type : ContentTypes, options : OptionsValues]

\* the requests the concurrent specification draws from
ConcRequests ==
    { [job_type |-> "receipt", filename |-> <<"a", ".", "t", "x", "t">>,
       content |-> TenBytes, content_type |-> Some("text/plain"), options |-> None],
      [job_type |-> "invoice", filename |-> <<"b">>,
       content |-> <<>>, content_type |-> None, options |-> Some("{}")],
      [job_type |-> "unknown_type", filename |-> <<"b">>,
       content |-> <<255>>, content_type |-> None, options |-> None] }

NoRequest ==
    [job_type |-> "", filename |-> <<>>, content |-> <<>>, content_type |-> None,
     options |-> None]

\* what the environment does to one use of the document store
StoreOutcomes == {"absent", "error", "ok"}

\* ------------------------------------------------------ document store
\* database.create_document / database.get_documents are not part of the
\* sources; they are modelled from the external-collaborator contract.
ObjectId(n) == [oid |-> n]
Datetime(n) == [ts |-> n]

create_document(collection, doc) ==
    Append(collection,
           [_id |-> ObjectId(Len(collection) + 1),
            created_at |-> Datetime(Len(collection) + 1),
            job_type |-> doc.job_type, filename |-> doc.filename,
            size_bytes |-> doc.size_bytes, status |-> doc.status,
            result_summary |-> doc.result_summary, meta |-> doc.meta])

get_documents(collection, limit) ==
    SubSeq(collection, 1, Min(limit, Len(collection)))

\* ------------------------------------------------------------- schemas.py
ExtractionJob(job_type, filename, size, status, summary, meta) ==
    [job_type |-> job_type, filename |-> filename, size_bytes |-> size,
     status |-> status, result_summary |-> summary, meta |-> meta]

\* pydantic validation of ExtractionJob: the two Literal fields
ExtractionJobValid(doc) ==
    /\ doc.job_type \in ExtractionJobTypes
    /\ doc.status \in ExtractionJobStatuses

\* ---------------------------------------------------------------- log_job
\* result: the store after the call, and whether an exception left log_job
\* faulty variant: no except clause, every failure leaves log_job
log_jobNoCatch(collection, job_type, filename, size, status, summary, meta, env) ==
    LET doc == ExtractionJob(job_type, filename, size, status, summary, meta) IN
    IF env = "absent" THEN [store |-> collection, raised |-> TRUE]
    ELSE IF ~ExtractionJobValid(doc) THEN [store |-> collection, raised |-> TRUE]
    ELSE IF env = "error" THEN [store |-> collection, raised |-> TRUE]
    ELSE [store |-> create_document(collection, doc), raised |-> FALSE]

\* faulty variant: filename and summary passed in each other's place
log_jobSwapped(collection, job_type, filename, size, status, summary, meta, env) ==
    LET doc == ExtractionJob(job_type, summary, size, status, filename, meta) IN
    IF env = "absent" THEN [store |-> collection, raised |-> FALSE]
    ELSE IF ~ExtractionJobValid(doc) THEN [store |-> collection, raised |-> FALSE]
    ELSE IF env = "error" THEN [store |-> collection, raised |-> FALSE]
    ELSE [store |-> create_document(collection, doc), raised |-> FALSE]

\* faulty variant: a failed write is tried again and then succeeds
log_jobRetry(collection, job_type, filename, size, status, summary, meta, env) ==
    LET doc == ExtractionJob(job_type, filename, size, status, summary, meta) IN
    IF env = "absent" THEN [store |-> collection, raised |-> FALSE]
    ELSE IF ~ExtractionJobValid(doc) THEN [store |-> collection, raised |-> FALSE]
    ELSE [store |-> create_document(collection, doc), raised |-> FALSE]

log_job(collection, job_type, filename, size, status, summary, meta, env) ==
    LET doc == ExtractionJob(job_type, filename, size, status, summary, meta) IN
    \* from database import create_document fails: caught, ignored
    IF env = "absent" THEN [store |-> collection, raised |-> FALSE]
    \* ExtractionJob(...) fails validation: caught, ignored
    ELSE IF ~ExtractionJobValid(doc) THEN [store |-> collection, raised |-> FALSE]
    \* create_document raises: caught, ignored
    ELSE IF env = "error" THEN [store |-> collection, raised |-> FALSE]
    ELSE [store |-> create_document(collection, doc), raised |-> FALSE]

\* ------------------------------------------------- extract_document pieces
\* faulty variant: file.read(1), only the first byte is read
FileReadChunk(file) == SubSeq(file.content, 1, Min(1, Len(file.content)))
\* content = await file.read()
FileRead(file) == file.content

\* summary = f"Parsed {ALLOWED_EXTRACT_TYPES[job_type]} for {file.filename} (demo)"
Summary(job_type, filename) ==
    <<"Parsed ">> \o ALLOWED_EXTRACT_TYPES[job_type] \o <<" for ">> \o filename
        \o <<" (demo)">>

\* faulty variant: tool is the job type key, not its display name
ExtractResponseToolKey(job_type, file, size, summary, demo_data) ==
    [status |-> 200,
     body |-> [tool |-> <<job_type>>, filename |-> file.filename,
               size_bytes |-> size, content_type |-> file.content_type,
               summary |-> summary, data |-> demo_data]]

ExtractResponse(job_type, file, size, summary, demo_data) ==
    [status |-> 200,
     body |-> [tool |-> ALLOWED_EXTRACT_TYPES[job_type], filename |-> file.filename,
               size_bytes |-> size, content_type |-> file.content_type,
               summary |-> summary, data |-> demo_data]]

NoBody ==
    [tool |-> <<>>, filename |-> <<>>, size_bytes |-> 0, content_type |-> None,
     summary |-> <<>>, data |-> [detail |-> "none"]]

\* an error response: the status code and the detail
ErrorResponse(code, detail) ==
    [status |-> code,
     body |-> [tool |-> <<>>, filename |-> <<>>, size_bytes |-> 0, content_type |-> None,
               summary |-> <<>>, data |-> [detail |-> detail]]]

NoResponse == [status |-> 0, body |-> NoBody]

NoLogArgs ==
    [job_type |-> "", filename |-> <<>>, size |-> 0, status |-> "", summary |-> <<>>,
     meta |-> [content_type |-> None]]

\* ---------------------------------------------------------------- list_jobs
DefaultLimit == 20
Limits == {1, DefaultLimit}

\* str(ObjectId) and datetime.isoformat()
Str(v) == <<"ObjectId:", ToString(v.oid)>>
IsoFormat(v) == <<"T", ToString(v.ts)>>
\* the fields under which the store keeps values that have isoformat
DatetimeFields == {"created_at", "updated_at"}

_clean(d) ==
    [k \in DOMAIN d |->
        IF k \in DatetimeFields THEN IsoFormat(d[k])
        ELSE IF k = "_id" THEN Str(d[k]) ELSE d[k]]

\* faulty variant: no except clause, a store failure is a 500
list_jobsNoCatch(collection, limit, env) ==
    IF env # "ok" THEN [status |-> 500, out |-> [items |-> <<>>]]
    ELSE LET docs == get_documents(collection, limit) IN
         [status |-> 200, out |-> [items |-> [i \in 1..Len(docs) |-> _clean(docs[i])]]]

list_jobs(collection, limit, env) ==
    \* the import or get_documents raises: except Exception -> {"items": []}
    IF env # "ok" THEN [status |-> 200, out |-> [items |-> <<>>]]
    ELSE LET docs == get_documents(collection, limit) IN
         [status |-> 200, out |-> [items |-> [i \in 1..Len(docs) |-> _clean(docs[i])]]]

\* ----------------------------------------------------------------- AI stubs
Whitespace == {" ", "\n", "\t"}
SentenceSep == <<".", " ">>
NoContent == <<"No content provided.">>

RECURSIVE LStrip(_)
LStrip(s) == IF s # <<>> /\ Head(s) \in Whitespace THEN LStrip(Tail(s)) ELSE s

RECURSIVE RStrip(_)
RStrip(s) ==
    IF s # <<>> /\ s[Len(s)] \in Whitespace THEN RStrip(SubSeq(s, 1, Len(s) - 1)) ELSE s

\* str.strip()
Strip(s) == RStrip(LStrip(s))

\* str.split(sep): cut at each occurrence of sep, found left to right
RECURSIVE Split(_, _)
Split(s, sep) ==
    LET hits == {i \in 1..(Len(s) - Len(sep) + 1) : SubSeq(s, i, i + Len(sep) - 1) = sep} IN
    IF hits = {} THEN <<s>>
    ELSE LET i == CHOOSE h \in hits : \A g \in hits : h <= g IN
         <<SubSeq(s, 1, i - 1)>> \o Split(SubSeq(s, i + Len(sep), Len(s)), sep)

\* sep.join(parts)
RECURSIVE Join(_, _)
Join(parts, sep) ==
    IF parts = <<>> THEN <<>>
    ELSE IF Len(parts) = 1 THEN parts[1]
    ELSE parts[1] \o sep \o Join(Tail(parts), sep)

\* xs[:n], a negative n counting from the end
SlicePrefix(xs, n) ==
    IF n >= 0 THEN SubSeq(xs, 1, Min(n, Len(xs)))
    ELSE SubSeq(xs, 1, Max(Len(xs) + n, 0))

\* faulty variant: the text is split without being stripped
summarizeNoStrip(text, max_sentences) ==
    LET snippet == SlicePrefix(Split(text, SentenceSep), max_sentences)
        summary == Join(snippet, SentenceSep)
    IN  [summary |-> IF summary = <<>> THEN NoContent ELSE summary]

summarize(text, max_sentences) ==
    LET snippet == SlicePrefix(Split(Strip(text), SentenceSep), max_sentences)
        summary == Join(snippet, SentenceSep)
    IN  [summary |-> IF summary = <<>> THEN NoContent ELSE summary]

translate(text, target_lang) ==
    [translated |-> <<"[Translated to ">> \o target_lang \o <<"] ">> \o text]

chat_with_pdf(question) ==
    [answer |->
        <<"This is a demo response. In the full version, the system would index your PDF and answer using its content.\n">>
        \o <<"Question: ">> \o question \o <<"\n">>
        \o <<"Answer: Based on a quick scan, the document discusses totals, dates, and line items.">>]

ppt_outline(text) ==
    [outline |-> <<"Title: Key Insights", "Slide 1: Overview", "Slide 2: Data Tables",
                   "Slide 3: Totals & Trends", "Slide 4: Conclusions">>]

image_gen(prompt) ==
    [image_url |-> "https://picsum.photos/seed/docuparse/1024/768", prompt |-> prompt]

\* inputs of the AI stubs
TextAtoms == {"A", ".", " "}
ExampleText == <<"A", ".", " ", "B", ".", " ", "C", ".", " ", "D", ".">>
Texts == SeqsUpTo(TextAtoms, MaxTextLen) \cup {ExampleText}
DefaultMaxSentences == 3
MaxSentencesValues == {-1, 0, 1, 2, DefaultMaxSentences}
StubTexts == {<<"H", "e", "l", "l", "o">>}
StubLangs == {<<"fr">>}

\* ------------------------------------------------------------------- state
VARIABLES
    pc,         \* where each request is: idle, read, build, audit, respond, done
    req,        \* the request each process serves
    read,       \* whether file.read() has been called for the request
    content,    \* extract_document's local: the bytes read
    size,       \* extract_document's local: len(content)
    demo_data,  \* extract_document's local
    summary,    \* extract_document's local
    logArgs,    \* the arguments of the request's log_job call
    logEnv,     \* what the store did to the request's log_job call ("none": no call)
    resp,       \* the response sent for the request
    store,      \* the "extractionjob" collection of the document store
    store0,     \* the collection as it was at the start
    last        \* the latest list_jobs / AI stub call: its input and response

vars ==
    <<pc, req, read, content, size, demo_data, summary, logArgs, logEnv, resp, store,
      store0, last>>

extractVars ==
    <<pc, req, read, content, size, demo_data, summary, logArgs, logEnv, resp, store>>

NoData == [detail |-> "none"]
NoCall == [op |-> "none", input |-> [none |-> TRUE], env |-> "none", status |-> 0,
           out |-> [none |-> TRUE]]

\* a record an earlier extraction left in the store
PriorDoc ==
    ExtractionJob("invoice", <<"old", ".", "pdf">>, 3, "success",
                  Summary("invoice", <<"old", ".", "pdf">>),
                  [content_type |-> Some("application/pdf")])

InitWith(stores) ==
    /\ pc = [p \in Procs |-> "idle"]
    /\ req = [p \in Procs |-> NoRequest]
    /\ read = [p \in Procs |-> FALSE]
    /\ content = [p \in Procs |-> <<>>]
    /\ size = [p \in Procs |-> 0]
    /\ demo_data = [p \in Procs |-> NoData]
    /\ summary = [p \in Procs |-> <<>>]
    /\ logArgs = [p \in Procs |-> NoLogArgs]
    /\ logEnv = [p \in Procs |-> "none"]
    /\ resp = [p \in Procs |-> NoResponse]
    /\ store \in stores
    /\ store0 = store
    /\ last = NoCall

\* --------------------------------------------------- extract_document steps
\* the request arrives: the framework checks the path parameter against its
\* Literal annotation (422 on a mismatch, the handler is not called), then the
\* handler checks ALLOWED_EXTRACT_TYPES (400) up to its first await
Validate(p, r) ==
    /\ pc[p] = "idle"
    /\ req' = [req EXCEPT ![p] = r]
    /\ IF r.job_type \notin JobTypeLiteral
         THEN /\ resp' = [resp EXCEPT ![p] = ErrorResponse(422, "literal_error")]
              /\ pc' = [pc EXCEPT ![p] = "done"]
         ELSE IF r.job_type \notin DOMAIN ALLOWED_EXTRACT_TYPES
         THEN /\ resp' = [resp EXCEPT ![p] = ErrorResponse(400, "Unsupported job type")]
              /\ pc' = [pc EXCEPT ![p] = "done"]
         ELSE /\ resp' = resp
              /\ pc' = [pc EXCEPT ![p] = "read"]
    /\ UNCHANGED <<read, content, size, demo_data, summary, logArgs, logEnv, store, store0,
                   last>>

\* content = await file.read(); size = len(content)
ReadUpload(p) ==
    /\ pc[p] = "read"
    /\ read' = [read EXCEPT ![p] = TRUE]
    /\ content' = [content EXCEPT ![p] = FileRead(req[p])]
    /\ size' = [size EXCEPT ![p] = Len(content'[p])]
    /\ pc' = [pc EXCEPT ![p] = "build"]
    /\ UNCHANGED <<req, demo_data, summary, logArgs, logEnv, resp, store, store0, last>>

\* the if/elif chain building demo_data, then the summary
BuildPayload(p) ==
    /\ pc[p] = "build"
    /\ demo_data' = [demo_data EXCEPT ![p] = DemoData(req[p].job_type)]
    /\ summary' = [summary EXCEPT ![p] = Summary(req[p].job_type, req[p].filename)]
    /\ pc' = [pc EXCEPT ![p] = "audit"]
    /\ UNCHANGED <<req, read, content, size, logArgs, logEnv, resp, store, store0, last>>

\* log_job(job_type, file.filename, size, "success", summary, {"content_type": ...})
AuditWrite(p) ==
    /\ pc[p] = "audit"
    /\ \E env \in StoreOutcomes :
         LET meta == [content_type |-> req[p].content_type]
             r == log_job(store, req[p].job_type, req[p].filename, size[p], "success",
                          summary[p], meta, env)
         IN  /\ logArgs' = [logArgs EXCEPT ![p] =
                     [job_type |-> req[p].job_type, filename |-> req[p].filename,
                      size |-> size[p], status |-> "success", summary |-> summary[p],
                      meta |-> meta]]
             /\ logEnv' = [logEnv EXCEPT ![p] = env]
             /\ store' = r.store
             /\ IF r.raised
                  THEN /\ resp' = [resp EXCEPT ![p] =
                                      ErrorResponse(500, "Internal Server Error")]
                       /\ pc' = [pc EXCEPT ![p] = "done"]
                  ELSE /\ resp' = resp
                       /\ pc' = [pc EXCEPT ![p] = "respond"]
    /\ UNCHANGED <<req, read, content, size, demo_data, summary, store0, last>>

\* return ExtractResponse(...)
Respond(p) ==
    /\ pc[p] = "respond"
    /\ resp' = [resp EXCEPT ![p] =
                   ExtractResponse(req[p].job_type, req[p], size[p], summary[p],
                                   demo_data[p])]
    /\ pc' = [pc EXCEPT ![p] = "done"]
    /\ UNCHANGED <<req, read, content, size, demo_data, summary, logArgs, logEnv, store,
                   store0, last>>

\* ------------------------------------------------------- the other endpoints
ListJobs(limit, env) ==
    /\ LET r == list_jobs(store, limit, env) IN
         last' = [op |-> "list_jobs", input |-> [limit |-> limit], env |-> env,
                  status |-> r.status, out |-> r.out]
    /\ UNCHANGED <<extractVars, store0>>

Summarize(text, max_sentences) ==
    /\ last' = [op |-> "summarize",
                input |-> [text |-> text, max_sentences |-> max_sentences],
                env |-> "none", status |-> 200, out |-> summarize(text, max_sentences)]
    /\ UNCHANGED <<extractVars, store0>>

Translate(text, target_lang) ==
    /\ last' = [op |-> "translate", input |-> [text |-> text, target_lang |-> target_lang],
                env |-> "none", status |-> 200, out |-> translate(text, target_lang)]
    /\ UNCHANGED <<extractVars, store0>>

Chat(question) ==
    /\ last' = [op |-> "chat", input |-> [question |-> question], env |-> "none",
                status |-> 200, out |-> chat_with_pdf(question)]
    /\ UNCHANGED <<extractVars, store0>>

PptOutline(text) ==
    /\ last' = [op |-> "ppt_outline", input |-> [text |-> text], env |-> "none",
                status |-> 200, out |-> ppt_outline(text)]
    /\ UNCHANGED <<extractVars, store0>>

ImageGen(prompt) ==
    /\ last' = [op |-> "image_gen", input |-> [prompt |-> prompt], env |-> "none",
                status |-> 200, out |-> image_gen(prompt)]
    /\ UNCHANGED <<extractVars, store0>>

\* ---------------------------------------------------------- specifications
\* the whole service: concurrent extraction requests, the listing, the AI stubs
Init == InitWith({<<>>})

Next ==
    \/ \E p \in Procs, r \in ConcRequests : Validate(p, r)
    \/ \E p \in Procs : ReadUpload(p)
    \/ \E p \in Procs : BuildPayload(p)
    \/ \E p \in Procs : AuditWrite(p)
    \/ \E p \in Procs : Respond(p)
    \/ \E limit \in Limits, env \in StoreOutcomes : ListJobs(limit, env)
    \/ Summarize(ExampleText, 2)
    \/ \E t \in StubTexts, l \in StubLangs : Translate(t, l)
    \/ \E t \in StubTexts : Chat(t)
    \/ \E t \in StubTexts : PptOutline(t)
    \/ \E t \in StubTexts : ImageGen(t)

Spec == Init /\ [][Next]_vars

\* one extraction request, every input of the request universe
InitExtract == InitWith({<<>>, create_document(<<>>, PriorDoc)})

NextExtract ==
    \/ \E r \in Requests : Validate(1, r)
    \/ ReadUpload(1)
    \/ BuildPayload(1)
    \/ AuditWrite(1)
    \/ Respond(1)

SpecExtract == InitExtract /\ [][NextExtract]_vars

\* summarize alone, every text and max_sentences of the input universe
NextSummarize == \E t \in Texts, n \in MaxSentencesValues : Summarize(t, n)

SpecSummarize == Init /\ [][NextSummarize]_vars

\* ===================================================================== claims
Done(p) == pc[p] = "done"

\* the closed set of job types of the extraction contract
ClosedJobTypes ==
    {"bank_statement", "invoice", "receipt", "salary_slip", "credit_card", "table_extract"}

Succeeded(p) == Done(p) /\ resp[p].status = 200

\* C1: a request whose job_type is outside the closed set ends with HTTP 400,
\* without file.read() having been called, without a log_job call and with the
\* audit store as it was.
C1_UnknownJobTypeIs400 ==
    \A p \in Procs :
        (Done(p) /\ req[p].job_type \notin ClosedJobTypes) =>
            /\ resp[p].status = 400
            /\ ~read[p]
            /\ logEnv[p] = "none"
            /\ store = store0

\* C2: two requests that are equal get equal, successful responses although the
\* audit write of one succeeded and that of the other failed (store absent or
\* write error): log_job never raises and never changes the response.
C2_AuditFailureInvisible ==
    \A p, q \in Procs :
        (Done(p) /\ Done(q) /\ req[p] = req[q] /\ logEnv[p] = "ok"
            /\ logEnv[q] \in {"absent", "error"}) =>
            /\ resp[q] = resp[p]
            /\ resp[q].status = 200

C2_Witness ==
    \E p, q \in Procs :
        /\ Done(p) /\ Done(q) /\ req[p] = req[q]
        /\ logEnv[p] = "ok" /\ logEnv[q] = "absent"
        /\ resp[q].status = 200

\* C3: a successful response has tool = the display name registered for the job
\* type, filename = the uploaded filename, and summary = "Parsed {tool} for
\* {filename} (demo)", which contains the uploaded filename as a substring.
C3_ToolFilenameSummary ==
    \A p \in Procs :
        Succeeded(p) =>
            LET b == resp[p].body IN
            /\ b.tool = ALLOWED_EXTRACT_TYPES[req[p].job_type]
            /\ b.filename = req[p].filename
            /\ b.summary = <<"Parsed ">> \o b.tool \o <<" for ">> \o b.filename \o <<" (demo)">>
            /\ IsSubstring(req[p].filename, b.summary)

C3_Witness ==
    \E p \in Procs :
        /\ Succeeded(p)
        /\ req[p].job_type = "receipt"
        /\ req[p].filename = <<"a", ".", "t", "x", "t">>
        /\ resp[p].body.tool = <<"Receipt Scanner">>
        /\ resp[p].body.summary =
              <<"Parsed ", "Receipt Scanner", " for ", "a", ".", "t", "x", "t", " (demo)">>

\* C4: a successful response's size_bytes is the byte length of the uploaded
\* content (0 for an empty upload), and log_job was called with the same size.
C4_SizeIsByteLength ==
    \A p \in Procs :
        Succeeded(p) =>
            /\ resp[p].body.size_bytes = Len(req[p].content)
            /\ logEnv[p] # "none"
            /\ logArgs[p].size = Len(req[p].content)

C4_Witness ==
    \E p \in Procs :
        /\ Succeeded(p)
        /\ req[p].content = <<>>
        /\ resp[p].body.size_bytes = 0
        /\ logArgs[p].size = 0
        /\ logEnv[p] = "ok"

\* the field names of the payload shape table
TopKeys(job_type) ==
    CASE job_type = "bank_statement" ->
            {"account_name", "account_number", "currency", "transactions"}
      [] job_type = "credit_card" -> {"cardholder", "last4", "currency", "transactions"}
      [] job_type = "invoice" ->
            {"merchant", "invoice_number", "issue_date", "due_date", "items", "subtotal",
             "tax", "grand_total"}
      [] job_type = "receipt" -> {"merchant", "date", "items", "total"}
      [] job_type = "salary_slip" ->
            {"employee", "month", "earnings", "deductions", "net_pay"}
      [] job_type = "table_extract" -> {"tables"}

EachHasKeys(xs, keys) == \A i \in 1..Len(xs) : DOMAIN xs[i] = keys

NestedShape(job_type, d) ==
    CASE job_type = "bank_statement" ->
            EachHasKeys(d.transactions, {"date", "description", "debit", "credit", "balance"})
      [] job_type = "credit_card" ->
            EachHasKeys(d.transactions, {"date", "merchant", "amount", "category"})
      [] job_type = "invoice" ->
            EachHasKeys(d.items, {"description", "qty", "price", "total"})
      [] job_type = "receipt" ->
            EachHasKeys(d.items, {"name", "qty", "unit_price", "total"})
      [] job_type = "salary_slip" ->
            /\ DOMAIN d.earnings = {"basic", "hra", "bonus"}
            /\ DOMAIN d.deductions = {"tax", "insurance"}
      [] job_type = "table_extract" ->
            /\ EachHasKeys(d.tables, {"name", "columns", "rows"})
            /\ \A i \in 1..Len(d.tables) :
                 \A r \in 1..Len(d.tables[i].rows) :
                    Len(d.tables[i].rows[r]) = Len(d.tables[i].columns)

\* C5: a successful response's data has exactly the top-level (and nested) keys
\* of the shape table for its job type, and is the payload fixed for that job
\* type, whatever the file content, filename, content type and options.
C5_DataShapeByJobType ==
    \A p \in Procs :
        Succeeded(p) =>
            LET d == resp[p].body.data IN
            /\ DOMAIN d = TopKeys(req[p].job_type)
            /\ NestedShape(req[p].job_type, d)
            /\ d = DemoData(req[p].job_type)

C5_Witness ==
    \E p \in Procs :
        /\ Succeeded(p)
        /\ req[p].job_type = "receipt"
        /\ req[p].options # None
        /\ req[p].content = TenBytes
        /\ DOMAIN resp[p].body.data = {"merchant", "date", "items", "total"}
        /\ resp[p].body.data.total = 426

\* C6: a request whose job_type is in the closed set never gets an error: no
\* error response is ever set for it, and once done its response is a success.
C6_ValidJobTypeSucceeds ==
    \A p \in Procs :
        req[p].job_type \in ClosedJobTypes =>
            /\ resp[p].status \in {0, 200}
            /\ Done(p) => resp[p].status = 200

C6_Witness ==
    \E p \in Procs :
        /\ Done(p)
        /\ req[p].job_type = "table_extract"
        /\ logEnv[p] = "error"
        /\ resp[p].status = 200
        /\ store = store0

\* the claimed fields of an audit record, as document d carries them
CarriesCall(d, p) ==
    /\ d.job_type = req[p].job_type
    /\ d.filename = req[p].filename
    /\ d.size_bytes = Len(req[p].content)
    /\ d.status = "success"
    /\ d.result_summary =
          <<"Parsed ">> \o ALLOWED_EXTRACT_TYPES[req[p].job_type] \o <<" for ">>
              \o req[p].filename \o <<" (demo)">>
    /\ d.meta = [content_type |-> req[p].content_type]

\* C7: a list_jobs call always answers 200; with the store absent or failing it
\* answers {items: []}; otherwise items holds one cleaned record per record the
\* store returns for the limit (identifier and timestamp as text, the other
\* fields as stored); the call leaves the audit store unchanged.
C7_ListJobsNeverFails ==
    [][ (last'.op = "list_jobs" /\ last' # last) =>
          /\ store' = store
          /\ last'.status = 200
          /\ IF last'.env # "ok" THEN last'.out = [items |-> <<>>]
             ELSE LET docs == SubSeq(store, 1, Min(last'.input.limit, Len(store)))
                      items == last'.out.items
                  IN  /\ Len(items) = Len(docs)
                      /\ \A i \in 1..Len(docs) :
                            /\ DOMAIN items[i] = DOMAIN docs[i]
                            /\ items[i]._id = <<"ObjectId:", ToString(docs[i]._id.oid)>>
                            /\ items[i].created_at = <<"T", ToString(docs[i].created_at.ts)>>
                            /\ \A k \in DOMAIN docs[i] \ {"_id", "created_at"} :
                                  items[i][k] = docs[i][k] ]_vars

C7_Witness ==
    /\ last.op = "list_jobs"
    /\ last.env = "ok"
    /\ last.input.limit = 1
    /\ Len(store) = 2
    /\ Len(last.out.items) = 1
    /\ last.out.items[1].job_type = store[1].job_type

\* the processes whose log_job call writes to the store in this step
Writers == {p \in Procs : pc[p] = "audit" /\ pc'[p] # "audit" /\ logEnv'[p] = "ok"}

\* C9: the store changes only by the audit write of a valid extraction whose
\* write succeeded, which appends exactly one record carrying that call's
\* job_type, filename, size_bytes, status "success", summary and {content_type};
\* every other step (rejected extraction, failed write, list_jobs, AI stubs)
\* leaves every record as it is; the record's summary is the response's.
C9_AppendOnlyOnePerLoggedCall ==
    /\ [][ IF Writers # {}
             THEN \E p \in Writers :
                    /\ Len(store') = Len(store) + 1
                    /\ SubSeq(store', 1, Len(store)) = store
                    /\ CarriesCall(store'[Len(store')], p)
                    /\ req[p].job_type \in ClosedJobTypes
             ELSE store' = store ]_vars
    /\ [](\A p \in Procs :
            (Succeeded(p) /\ logEnv[p] = "ok") =>
                \E i \in 1..Len(store) :
                    /\ CarriesCall(store[i], p)
                    /\ store[i].result_summary = resp[p].body.summary)

C9_Witness ==
    \E p, q \in Procs :
        /\ p # q
        /\ Succeeded(p) /\ logEnv[p] = "ok"
        /\ Done(q) /\ req[q].job_type = "unknown_type"
        /\ last.op \in {"summarize", "translate", "chat", "ppt_outline", "image_gen"}
        /\ Len(store) = 1
        /\ CarriesCall(store[1], p)

\* C10: under every interleaving of the steps of concurrent requests, a finished
\* valid request's response carries its own filename, size_bytes, content_type
\* and its job type's tool and data; the store holds exactly one record per
\* request whose write succeeded, carrying that request's fields: a failed write
\* is dropped, not retried, and touches no other request's response or record.
C10_RequestsDoNotInterfere ==
    /\ \A p \in Procs :
         (Done(p) /\ req[p].job_type \in ClosedJobTypes) =>
            /\ resp[p].status = 200
            /\ resp[p].body.filename = req[p].filename
            /\ resp[p].body.size_bytes = Len(req[p].content)
            /\ resp[p].body.content_type = req[p].content_type
            /\ resp[p].body.tool = ALLOWED_EXTRACT_TYPES[req[p].job_type]
            /\ resp[p].body.data = DemoData(req[p].job_type)
    /\ Len(store) = Cardinality({p \in Procs : logEnv[p] = "ok"})
    /\ \A p \in Procs : logEnv[p] = "ok" => \E i \in 1..Len(store) : CarriesCall(store[i], p)

C10_Witness ==
    \E p, q \in Procs :
        /\ Done(p) /\ Done(q)
        /\ req[p].job_type = "receipt" /\ req[q].job_type = "invoice"
        /\ logEnv[p] = "error" /\ logEnv[q] = "ok"
        /\ resp[p].status = 200 /\ resp[q].status = 200
        /\ resp[p].body.filename # resp[q].body.filename
        /\ Len(store) = 1

\* the first k fragments
FirstK(frags, k) == [i \in 1..Min(k, Len(frags)) |-> frags[i]]

\* C8 as stated: the first max_sentences fragments of the text itself, rejoined;
\* "No content provided." when that is empty after trimming (max_sentences >= 0).
C8_SummarizeOfRawText ==
    (last.op = "summarize" /\ last.input.max_sentences >= 0) =>
        LET r == Join(FirstK(Split(last.input.text, SentenceSep), last.input.max_sentences),
                      SentenceSep)
        IN  last.out.summary = IF Strip(r) = <<>> THEN NoContent ELSE r

\* C8 amended: summarize works on the text with its leading and trailing
\* whitespace removed: it returns the first max_sentences fragments of the
\* trimmed text split on ". ", rejoined with ". " (a negative max_sentences
\* keeps all but the last |max_sentences| fragments), and "No content provided."
\* when that result is empty; "A. B. C. D." with max_sentences 2 gives "A. B".
C8_SummarizeOfTrimmedText ==
    last.op = "summarize" =>
        LET frags == Split(Strip(last.input.text), SentenceSep)
            n == last.input.max_sentences
            k == IF n >= 0 THEN n ELSE Max(Len(frags) + n, 0)
            r == Join(FirstK(frags, k), SentenceSep)
        IN  /\ last.out.summary = IF r = <<>> THEN NoContent ELSE r
            /\ (r # <<>>) => Strip(r) # <<>>
            /\ (last.input.text = ExampleText /\ n = 2) =>
                    last.out.summary = <<"A", ".", " ", "B">>

C8_Witness ==
    /\ last.op = "summarize"
    /\ last.input.text = <<" ", "A", ".", " ">>
    /\ last.input.max_sentences = 2
    /\ last.out.summary = <<"A", ".">>

====
